---- MODULE Spec2Model ----
(***************************************************************************)
(* Sentinel-AI-Desktop: the orchestration core of the voice assistant.     *)
(*                                                                         *)
(*   - the supervisor graph (graph_builder.py, langgraph_router.py)        *)
(*   - the conversation loop (orchestrator.py, run under backend_runner_v2)*)
(*   - the short-term memory (agent_memory.py)                             *)
(*   - the event bus and the backend runner (integration/)                 *)
(*   - the timers of the productivity tools (productivity_tools.py)        *)
(*                                                                         *)
(* Text is modelled as sequences of one-character strings, so that         *)
(* str.strip(), str.lower(), " ".join() and the substring tests of the     *)
(* source are computed rather than assumed.                                *)
(***************************************************************************)
EXTENDS Integers, Sequences, FiniteSets, TLC

VARIABLES
    \* ---- supervisor graph (one graph.stream run) ----
    g_pc,          \* node about to run: "supervisor", "router", "agent", "final", "done", "idle"
    g_lead,        \* whitespace the classifier put before its answer
    g_core,        \* the classifier's answer without surrounding whitespace
    g_trail,       \* whitespace the classifier put after its answer
    g_content,     \* what the agent's model would answer if it is run
    g_messages,    \* AgentState["messages"]
    g_last_state,  \* last_state of route_to_langgraph
    g_agents_run,  \* agent nodes executed by this run
    g_answer,      \* final_answer
    \* ---- conversation loop (run_sentinel_agent) ----
    pc,                    \* position of the backend worker
    wake_event,            \* WakeWordListener._wake_event
    conversation_history,
    turn_count,
    response,
    routed,                \* contexts handed to route_to_langgraph in this session
    decision,              \* supervisor's label in the latest routing call
    agent_calls,           \* agent nodes run by the latest routing call
    seg,                   \* what the loop did since the wake wait / the last spoken response
    ended,                 \* CONVERSATION_ENDED events of this session
    all_follow_up,         \* every response of this session was classified as a follow-up
    all_answered,          \* every follow-up prompt of this session got a non-cancelling answer
    failure,               \* what raised, if anything did
    running,               \* BackendRunner.running
    \* ---- agent memory (AgentMemory) ----
    mongodb_available,
    memory_collection,     \* the documents of the durable collection, in insertion order
    memory_fallback,       \* _memory_fallback
    current_session_id,
    current_user_id,
    clock,                 \* datetime.utcnow(), in minutes
    advances,              \* clock advances so far
    n_stores,              \* store() calls so far
    n_sessions,            \* start_session() calls so far
    m_ret,                 \* the latest call and what it returned
    stored_log,            \* every entry a store() call returned an id for
    \* ---- event bus (EventBus) ----
    frontend_queue,
    subscribers,           \* _subscribers: the event types that have a callback
    b_pending,             \* per producer, the event of the emit() it is inside
    b_emitted,             \* per producer, the emit() calls so far
    b_received,            \* the events get_event has returned, in order
    b_got,                 \* what the latest get_event returned
    b_notified,            \* the events handed to subscriber callbacks
    b_clears,              \* clear() calls so far
    b_clearing,            \* a clear() call is under way
    \* ---- backend runner (BackendRunner) ----
    r_threads,             \* the threads start() created, each "starting", "agent" or "ended"
    r_log,                 \* the backend events emitted, in order
    backend_queue,         \* EventBus.backend_queue
    \* ---- first construction of the event bus (EventBus.__new__, __init__) ----
    s_pc,                  \* per constructing thread, its position
    s_instance,            \* EventBus._instance: "None" or "object"
    s_lock,                \* holder of EventBus._lock, or "free"
    s_initialized,         \* the instance's _initialized: "unset", "False" or "True"
    s_inits,               \* how many times __init__ created the queues and the table
    s_sent,                \* the events emitted through the instance
    \* ---- timers and alarms (productivity_tools.py) ----
    active_timers,         \* the keys of active_timers
    active_alarms,         \* the keys of active_alarms
    timer_id_counter,
    alarm_id_counter,
    t_pc,                  \* per timer, the position of its threading.Timer thread
    c_pc,                  \* position of the cancel_timer call under way
    c_id,                  \* its timer_id argument
    c_ok                   \* the timer ids cancel_timer reported as cancelled

graphVars == <<g_pc, g_lead, g_core, g_trail, g_content, g_messages, g_last_state,
               g_agents_run, g_answer>>
loopVars == <<pc, wake_event, conversation_history, turn_count, response, routed,
              decision, agent_calls, seg, ended, all_follow_up, all_answered, failure,
              running>>
memoryVars == <<mongodb_available, memory_collection, memory_fallback, current_session_id,
                current_user_id, clock, advances, n_stores, n_sessions, m_ret, stored_log>>
busVars == <<frontend_queue, subscribers, b_pending, b_emitted, b_received, b_got,
             b_notified, b_clears, b_clearing>>
runnerVars == <<r_threads, r_log, backend_queue>>
singletonVars == <<s_pc, s_instance, s_lock, s_initialized, s_inits, s_sent>>
timerVars == <<active_timers, active_alarms, timer_id_counter, alarm_id_counter, t_pc,
               c_pc, c_id, c_ok>>
toolVars == <<runnerVars, singletonVars, timerVars>>
workerVars == <<pc, wake_event, conversation_history, turn_count, response, routed,
                decision, agent_calls, seg, ended, all_follow_up, all_answered, failure>>
vars == <<graphVars, loopVars, memoryVars, busVars, toolVars>>
notGraph == <<loopVars, memoryVars, busVars, toolVars>>
notLoop == <<graphVars, memoryVars, busVars, toolVars>>
notMemory == <<graphVars, loopVars, busVars, toolVars>>
notBus == <<graphVars, loopVars, memoryVars, toolVars>>
notRunner == <<graphVars, workerVars, memoryVars, busVars, singletonVars, timerVars>>
notSingleton == <<graphVars, loopVars, memoryVars, b_pending, b_emitted, b_received, b_got,
                  b_notified, b_clears, b_clearing, r_threads, r_log, timerVars>>
notTimer == <<graphVars, loopVars, memoryVars, busVars, runnerVars, singletonVars>>

-----------------------------------------------------------------------------
(* Text *)

Browser == <<"B","r","o","w","s","e","r">>
Music == <<"M","u","s","i","c">>
Meeting == <<"M","e","e","t","i","n","g">>
System == <<"S","y","s","t","e","m">>
Productivity == <<"P","r","o","d","u","c","t","i","v","i","t","y">>
FINISH == <<"F","I","N","I","S","H">>
END == <<"_","_","e","n","d","_","_">>

\* Python's None: no text at all (distinct from the empty string).
None == <<"None">>

UpperToLower ==
    ("A" :> "a") @@ ("B" :> "b") @@ ("C" :> "c") @@ ("D" :> "d") @@ ("E" :> "e") @@ ("F" :> "f") @@
    ("G" :> "g") @@ ("H" :> "h") @@ ("I" :> "i") @@ ("J" :> "j") @@ ("K" :> "k") @@ ("L" :> "l") @@
    ("M" :> "m") @@ ("N" :> "n") @@ ("O" :> "o") @@ ("P" :> "p") @@ ("Q" :> "q") @@ ("R" :> "r") @@
    ("S" :> "s") @@ ("T" :> "t") @@ ("U" :> "u") @@ ("V" :> "v") @@ ("W" :> "w") @@ ("X" :> "x") @@
    ("Y" :> "y") @@ ("Z" :> "z")

\* str.lower()
Lower(s) == [i \in 1..Len(s) |-> IF s[i] \in DOMAIN UpperToLower THEN UpperToLower[s[i]] ELSE s[i]]

\* sub in s
Contains(s, sub) ==
    \E i \in 1..(Len(s) - Len(sub) + 1) : SubSeq(s, i, i + Len(sub) - 1) = sub

Whitespace == {" ", "\t", "\n", "\r"}

RECURSIVE LStrip(_)
LStrip(s) == IF s # <<>> /\ Head(s) \in Whitespace THEN LStrip(Tail(s)) ELSE s

RECURSIVE RStrip(_)
RStrip(s) ==
    IF s # <<>> /\ s[Len(s)] \in Whitespace THEN RStrip(SubSeq(s, 1, Len(s) - 1)) ELSE s

\* str.strip()
Strip(s) == RStrip(LStrip(s))

\* " ".join(parts)
RECURSIVE Join(_)
Join(parts) ==
    IF parts = <<>> THEN <<>>
    ELSE IF Len(parts) = 1 THEN parts[1]
    ELSE parts[1] \o <<" ">> \o Join(Tail(parts))

\* Python truthiness of an optional string
Truthy(s) == s # None /\ s # <<>>

-----------------------------------------------------------------------------
(* The supervisor graph: graph_builder.py and langgraph_router.py *)

\* The classifier's answers tried: the six labels, and answers that are not
\* exactly a label (empty, wrong case, a longer word, two labels, a sentence,
\* a label broken by a space).
RawLowerMusic == <<"m","u","s","i","c">>
RawFinished == <<"F","I","N","I","S","H","E","D">>
RawTwoLabels == <<"M","u","s","i","c"," ","B","r","o","w","s","e","r">>
RawSentence == <<"I"," ","c","h","o","o","s","e"," ","S","y","s","t","e","m">>
RawInnerSpace == <<"M","e","e"," ","t","i","n","g">>

AgentLabels == {Browser, Music, Meeting, System, Productivity}
Labels == AgentLabels \cup {FINISH}
RawCores == Labels \cup {<<>>, RawLowerMusic, RawFinished, RawTwoLabels, RawSentence, RawInnerSpace}
RawPads == {<<>>, <<" ">>, <<"\n">>, <<" ", "\n">>}

\* What an agent's model answers: a statement, or a question back to the user.
PlayingJazz == <<"P","l","a","y","i","n","g"," ","j","a","z","z",".">>
WhichDay == <<"W","h","i","c","h"," ","d","a","y","?">>
AgentContents == {PlayingJazz, WhichDay}

StockCompletion == <<"T","h","e"," ","t","a","s","k"," ","i","s"," ","c","o","m","p","l","e","t","e",","," ","b","u","t"," ","I"," ","d","o","n","'","t"," ","h","a","v","e"," ","a"," ","s","p","e","c","i","f","i","c"," ","a","n","s","w","e","r"," ","t","o"," ","s","h","o","w",".">>
AgentSuffix == <<" ","a","g","e","n","t",")",":"," ">>

StrMsg(text) == [kind |-> "str", text |-> text]
AiMsg(text) == [kind |-> "ai", text |-> text]
HumanMsg(text) == [kind |-> "human", text |-> text]

\* supervisor_node with the membership test dropped: only an empty answer
\* defaults to FINISH.
supervisor_node_lenient(raw) ==
    LET result == Strip(raw)
    IN  IF result = <<>> THEN FINISH ELSE result

\* supervisor_node: the label the supervisor appends to the state, from the
\* classifier's raw answer.
supervisor_node(raw) ==
    LET result == Strip(raw)
    IN  IF result = <<>> \/ result \notin Labels THEN FINISH ELSE result

\* router: the conditional edge after the supervisor.
router(next_agent) ==
    IF Contains(next_agent, Browser) THEN Browser
    ELSE IF Contains(next_agent, Music) THEN Music
    ELSE IF Contains(next_agent, Meeting) THEN Meeting
    ELSE IF Contains(next_agent, System) THEN System
    ELSE IF Contains(next_agent, Productivity) THEN Productivity
    ELSE END

\* agent_node: the message an agent node returns.
agent_node(agent_name, content) ==
    AiMsg(<<"(">> \o agent_name \o AgentSuffix \o content)

\* route_to_langgraph, lines 29-40: the answer taken from the last state seen.
final_answer(last_state) ==
    LET ai_messages == SelectSeq(last_state, LAMBDA m : m.kind = "ai")
    IN  IF ai_messages # <<>> THEN ai_messages[Len(ai_messages)].text
        ELSE StockCompletion

\* One whole graph.stream run, as route_to_langgraph sees it.
GraphRun(raw, content) ==
    LET label == supervisor_node(raw)
        node == router(label)
        last_state == IF node = END THEN <<StrMsg(label)>>
                      ELSE <<agent_node(node, content)>>
    IN  [decision |-> label,
         agents |-> IF node = END THEN <<>> ELSE <<node>>,
         answer |-> final_answer(last_state)]

g_raw == g_lead \o g_core \o g_trail

GraphInit ==
    /\ g_pc = "supervisor"
    /\ g_lead \in RawPads
    /\ g_core \in RawCores
    /\ g_trail \in RawPads
    /\ g_content \in AgentContents
    /\ g_messages = <<HumanMsg(<<"h", "i">>)>>
    /\ g_last_state = <<>>
    /\ g_agents_run = <<>>
    /\ g_answer = None

GraphIdle ==
    /\ g_pc = "idle"
    /\ g_lead = <<>>
    /\ g_core = <<>>
    /\ g_trail = <<>>
    /\ g_content = <<>>
    /\ g_messages = <<>>
    /\ g_last_state = <<>>
    /\ g_agents_run = <<>>
    /\ g_answer = None

SupervisorNode ==
    /\ g_pc = "supervisor"
    /\ LET update == <<StrMsg(supervisor_node(g_raw))>>
       IN  /\ g_messages' = g_messages \o update
           /\ g_last_state' = update
    /\ g_pc' = "router"
    /\ UNCHANGED <<g_lead, g_core, g_trail, g_content, g_agents_run, g_answer>>
    /\ UNCHANGED notGraph

RouterEdge ==
    /\ g_pc = "router"
    /\ g_pc' = IF router(g_messages[Len(g_messages)].text) = END THEN "final" ELSE "agent"
    /\ UNCHANGED <<g_lead, g_core, g_trail, g_content, g_messages, g_last_state,
                   g_agents_run, g_answer>>
    /\ UNCHANGED notGraph

AgentNode ==
    /\ g_pc = "agent"
    /\ LET name == router(g_messages[Len(g_messages)].text)
           update == <<agent_node(name, g_content)>>
       IN  /\ g_messages' = g_messages \o update
           /\ g_last_state' = update
           /\ g_agents_run' = Append(g_agents_run, name)
    /\ g_pc' = "final"
    /\ UNCHANGED <<g_lead, g_core, g_trail, g_content, g_answer>>
    /\ UNCHANGED notGraph

FinalAnswer ==
    /\ g_pc = "final"
    /\ g_answer' = final_answer(g_last_state)
    /\ g_pc' = "done"
    /\ UNCHANGED <<g_lead, g_core, g_trail, g_content, g_messages, g_last_state,
                   g_agents_run>>
    /\ UNCHANGED notGraph

GraphNext == SupervisorNode \/ RouterEdge \/ AgentNode \/ FinalAnswer

-----------------------------------------------------------------------------
(* The conversation loop: orchestrator.py *)

question_keywords ==
    << <<"c","o","u","l","d"," ","y","o","u">>,
       <<"c","a","n"," ","y","o","u">>,
       <<"w","o","u","l","d"," ","y","o","u">>,
       <<"w","h","a","t">>,
       <<"w","h","e","n">>,
       <<"w","h","e","r","e">>,
       <<"w","h","i","c","h">>,
       <<"w","h","o">>,
       <<"h","o","w">>,
       <<"d","o"," ","y","o","u"," ","w","a","n","t">>,
       <<"w","o","u","l","d"," ","y","o","u"," ","l","i","k","e">>,
       <<"p","l","e","a","s","e"," ","p","r","o","v","i","d","e">>,
       <<"p","l","e","a","s","e"," ","t","e","l","l">>,
       <<"l","e","t"," ","m","e"," ","k","n","o","w">>,
       <<"t","e","l","l"," ","m","e">>,
       <<"s","p","e","c","i","f","y">>,
       <<"?">> >>

exit_phrases ==
    << <<"c","a","n","c","e","l">>,
       <<"n","e","v","e","r","m","i","n","d">>,
       <<"n","e","v","e","r"," ","m","i","n","d">>,
       <<"s","t","o","p">>,
       <<"q","u","i","t">>,
       <<"e","x","i","t">> >>

OkayCancelled == <<"O","k","a","y",","," ","c","a","n","c","e","l","l","e","d",".">>
PlayJazz == <<"p","l","a","y"," ","j","a","z","z">>
BookMeeting == <<"b","o","o","k"," ","a"," ","m","e","e","t","i","n","g">>
Friday == <<"f","r","i","d","a","y">>
CancelThat == <<"C","a","n","c","e","l"," ","t","h","a","t">>
NonstopHits == <<"n","o","n","s","t","o","p"," ","h","i","t","s">>
AtNoon == <<"a","t"," ","n","o","o","n">>

\* What listen_command can hand back: None on timeout or an unintelligible
\* phrase, else the recognised text.
CommandCaptures == {None, <<>>, PlayJazz, BookMeeting}
FollowUpCaptures == {None, Friday, AtNoon, CancelThat, NonstopHits}

\* The classifier's raw answers tried inside the loop.
LoopRawOutputs == {Music, <<" ">> \o Meeting \o <<"\n">>, FINISH, RawLowerMusic}

\* Bound on the length of the responses handed to is_follow_up_question.
MaxResponseLen == 3

\* The letters of the responses tried: they spell the cues "how", "who" and "?"
\* in either case.
CueLetters == {"h", "o", "w", "H", "O", "W", "?"}

\* The responses tried: a missing one, the empty one and every text of up to
\* MaxResponseLen letters.
ResponsesTried == {None} \cup UNION {[1..n -> CueLetters] : n \in 0..MaxResponseLen}

max_turns == 5

\* Cap on the step log of one segment (never reached by the loop as written).
MaxSeg == 16

\* The cues looked for in the response as written, not lower-cased.
is_follow_up_question_as_written(resp) ==
    IF ~Truthy(resp) THEN FALSE
    ELSE \E k \in 1..Len(question_keywords) : Contains(resp, question_keywords[k])

\* is_follow_up_question
is_follow_up_question(resp) ==
    IF ~Truthy(resp) THEN FALSE
    ELSE LET response_lower == Lower(resp)
         IN  \E k \in 1..Len(question_keywords) :
                 Contains(response_lower, question_keywords[k])

\* The exit phrases looked for in the utterance as heard, not lower-cased.
IsExitPhraseAsHeard(follow_up) ==
    \E k \in 1..Len(exit_phrases) : Contains(follow_up, exit_phrases[k])

\* any(phrase in follow_up.lower() for phrase in exit_phrases)
IsExitPhrase(follow_up) ==
    \E k \in 1..Len(exit_phrases) : Contains(Lower(follow_up), exit_phrases[k])

\* The observable steps of the loop.
Emit(name, data) == [kind |-> "emit", name |-> name, text |-> data]
Capture(heard) == [kind |-> "capture", name |-> "listen_command", text |-> heard]
Speak(text) == [kind |-> "speak", name |-> "tts.speak", text |-> text]
Route(context) == [kind |-> "route", name |-> "route_to_langgraph", text |-> context]

Log(steps, more) == IF Len(steps) + Len(more) <= MaxSeg THEN steps \o more ELSE steps

\* Cap on the count of CONVERSATION_ENDED events of one session (the loop as
\* written emits at most one).
MaxEnded == 2

\* A capped count.
Count(n) == IF n < MaxEnded THEN n + 1 ELSE n

Emitted(steps, name) == \E i \in 1..Len(steps) : steps[i].kind = "emit" /\ steps[i].name = name
Did(steps, kind) == \E i \in 1..Len(steps) : steps[i].kind = kind

\* while turn_count <= max_turns: one turn too many.
TurnGuardOffByOne(t) == t <= max_turns

\* while turn_count < max_turns
TurnGuard(t) == t < max_turns

\* Silence at the follow-up prompt makes the loop repeat the response and listen
\* again instead of ending.
AfterSilenceRepeats == "speak"

\* break on a silent follow-up capture (line 152)
AfterSilence == "clear_history"

LoopInit ==
    /\ pc = "loop_top"
    /\ wake_event = FALSE
    /\ conversation_history = <<>>
    /\ turn_count = 0
    /\ response = None
    /\ routed = <<>>
    /\ decision = None
    /\ agent_calls = <<>>
    /\ seg = <<>>
    /\ ended = 0
    /\ all_follow_up = TRUE
    /\ all_answered = TRUE
    /\ failure = "none"
    /\ running = TRUE

LoopIdle ==
    /\ pc = "off"
    /\ wake_event = FALSE
    /\ conversation_history = <<>>
    /\ turn_count = 0
    /\ response = None
    /\ routed = <<>>
    /\ decision = None
    /\ agent_calls = <<>>
    /\ seg = <<>>
    /\ ended = 0
    /\ all_follow_up = TRUE
    /\ all_answered = TRUE
    /\ failure = "none"
    /\ running = FALSE

\* Top of `while True` (line 97). The per-session records start afresh.
EmitListening ==
    /\ pc = "loop_top"
    /\ seg' = <<Emit("LISTENING_FOR_WAKE_WORD", <<>>)>>
    /\ routed' = <<>>
    /\ decision' = None
    /\ agent_calls' = <<>>
    /\ ended' = 0
    /\ all_follow_up' = TRUE
    /\ all_answered' = TRUE
    /\ pc' = "wait_wake"
    /\ UNCHANGED <<wake_event, conversation_history, turn_count, response, failure, running>>
    /\ UNCHANGED notLoop

\* WakeWordListener._listen: the listener thread hears the wake word.
ListenerDetects ==
    /\ pc \notin {"off", "stopped"}
    /\ ~wake_event
    /\ wake_event' = TRUE
    /\ UNCHANGED <<pc, conversation_history, turn_count, response, routed, decision,
                   agent_calls, seg, ended, all_follow_up, all_answered, failure, running>>
    /\ UNCHANGED notLoop

\* wait_for_wake_word: _wake_event.wait() returns ...
WakeWait ==
    /\ pc = "wait_wake"
    /\ wake_event
    /\ pc' = "clear_wake"
    /\ UNCHANGED <<wake_event, conversation_history, turn_count, response, routed, decision,
                   agent_calls, seg, ended, all_follow_up, all_answered, failure, running>>
    /\ UNCHANGED notLoop

\* ... and _wake_event.clear()
WakeClear ==
    /\ pc = "clear_wake"
    /\ wake_event' = FALSE
    /\ pc' = "listen_command"
    /\ UNCHANGED <<conversation_history, turn_count, response, routed, decision,
                   agent_calls, seg, ended, all_follow_up, all_answered, failure, running>>
    /\ UNCHANGED notLoop

\* Lines 102-115: the steps from the wake word to the end of command capture,
\* with COMMAND_RECEIVED announced whatever was captured.
CommandStepsAnnounceAll(command) ==
    <<Emit("WAKE_WORD_DETECTED", <<>>), Emit("LISTENING_FOR_COMMAND", <<>>),
      Capture(command), Emit("COMMAND_RECEIVED", command)>>

\* Lines 102-115: the steps from the wake word to the end of command capture.
CommandSteps(command) ==
    <<Emit("WAKE_WORD_DETECTED", <<>>), Emit("LISTENING_FOR_COMMAND", <<>>),
      Capture(command)>>
    \o (IF Truthy(command) THEN <<Emit("COMMAND_RECEIVED", command)>> ELSE <<>>)

\* Lines 102-119, `if command:` taken.
CommandRecognized ==
    /\ pc = "listen_command"
    /\ \E command \in CommandCaptures :
        /\ Truthy(command)
        /\ seg' = Log(seg, CommandSteps(command))
        /\ conversation_history' = <<command>>
    /\ turn_count' = 0
    /\ pc' = "turn"
    /\ UNCHANGED <<wake_event, response, routed, decision, agent_calls, ended,
                   all_follow_up, all_answered, failure, running>>
    /\ UNCHANGED notLoop

\* Lines 102-111 and 175-176: nothing was recognised.
NoCommand ==
    /\ pc = "listen_command"
    /\ \E command \in CommandCaptures :
        /\ ~Truthy(command)
        /\ seg' = Log(seg, CommandSteps(command))
    /\ pc' = "loop_top"
    /\ UNCHANGED <<wake_event, conversation_history, turn_count, response, routed, decision,
                   agent_calls, ended, all_follow_up, all_answered, failure, running>>
    /\ UNCHANGED notLoop

\* Lines 121-131: the guard holds and route_to_langgraph returns.
RouteTurn ==
    /\ pc = "turn"
    /\ TurnGuard(turn_count)
    /\ \E raw \in LoopRawOutputs, content \in AgentContents :
        LET full_context == Join(conversation_history)
            run == GraphRun(raw, content)
        IN  /\ seg' = Log(seg, <<Emit("PROCESSING_COMMAND", <<>>),
                                 Route(full_context),
                                 Emit("RESPONSE_GENERATED", run.answer)>>)
            /\ routed' = Append(routed, full_context)
            /\ response' = run.answer
            /\ decision' = run.decision
            /\ agent_calls' = run.agents
    /\ pc' = "speak"
    /\ UNCHANGED <<wake_event, conversation_history, turn_count, ended, all_follow_up,
                   all_answered, failure, running>>
    /\ UNCHANGED notLoop

\* The classifier call of supervisor_node raises: nothing in route_to_langgraph
\* or in the loop catches it.
RoutingRaises ==
    /\ pc = "turn"
    /\ TurnGuard(turn_count)
    /\ seg' = Log(seg, <<Emit("PROCESSING_COMMAND", <<>>),
                         Route(Join(conversation_history))>>)
    /\ routed' = Append(routed, Join(conversation_history))
    /\ decision' = None
    /\ agent_calls' = <<>>
    /\ failure' = "routing"
    /\ pc' = "raised"
    /\ UNCHANGED <<wake_event, conversation_history, turn_count, response, ended,
                   all_follow_up, all_answered, running>>
    /\ UNCHANGED notLoop

\* The agent chosen by the supervisor raises inside agent_graph.invoke.
AgentRaises ==
    /\ pc = "turn"
    /\ TurnGuard(turn_count)
    /\ \E raw \in LoopRawOutputs :
        /\ router(supervisor_node(raw)) # END
        /\ decision' = supervisor_node(raw)
        /\ agent_calls' = <<router(supervisor_node(raw))>>
    /\ seg' = Log(seg, <<Emit("PROCESSING_COMMAND", <<>>),
                         Route(Join(conversation_history))>>)
    /\ routed' = Append(routed, Join(conversation_history))
    /\ failure' = "agent"
    /\ pc' = "raised"
    /\ UNCHANGED <<wake_event, conversation_history, turn_count, response, ended,
                   all_follow_up, all_answered, running>>
    /\ UNCHANGED notLoop

\* `while turn_count < max_turns` is false: fall out of the loop.
TurnLimit ==
    /\ pc = "turn"
    /\ ~TurnGuard(turn_count)
    /\ pc' = "clear_history"
    /\ UNCHANGED <<wake_event, conversation_history, turn_count, response, routed, decision,
                   agent_calls, seg, ended, all_follow_up, all_answered, failure, running>>
    /\ UNCHANGED notLoop

\* TTS_FINISHED announced before the speech call is made.
SpeechStepsAnnouncedEarly(text) ==
    IF Truthy(text)
    THEN <<Emit("TTS_SPEAKING", <<>>), Emit("TTS_FINISHED", <<>>), Speak(text)>>
    ELSE <<>>

\* Lines 134-137: tts.speak(response, blocking=True) between its two events.
SpeechSteps(text) ==
    IF Truthy(text)
    THEN <<Emit("TTS_SPEAKING", <<>>), Speak(text), Emit("TTS_FINISHED", <<>>)>>
    ELSE <<>>

\* Lines 134-137: the blocking speech call. The step log starts afresh with
\* the speech of the response.
SpeakResponse ==
    /\ pc = "speak"
    /\ seg' = SpeechSteps(response)
    /\ pc' = "check_follow_up"
    /\ UNCHANGED <<wake_event, conversation_history, turn_count, response, routed, decision,
                   agent_calls, ended, all_follow_up, all_answered, failure, running>>
    /\ UNCHANGED notLoop

\* Lines 140-144
FollowUpDetected ==
    /\ pc = "check_follow_up"
    /\ is_follow_up_question(response)
    /\ seg' = Log(seg, <<Emit("FOLLOW_UP_DETECTED", <<>>)>>)
    /\ pc' = "listen_followup"
    /\ UNCHANGED <<wake_event, conversation_history, turn_count, response, routed, decision,
                   agent_calls, ended, all_follow_up, all_answered, failure, running>>
    /\ UNCHANGED notLoop

\* Lines 166-170: what the loop does after a response that asks nothing back.
FinalAnswerSteps == <<Emit("CONVERSATION_ENDED", <<>>)>>

\* Lines 166-170
FinalAnswerGiven ==
    /\ pc = "check_follow_up"
    /\ ~is_follow_up_question(response)
    /\ seg' = Log(seg, FinalAnswerSteps)
    /\ ended' = Count(ended)
    /\ all_follow_up' = FALSE
    /\ pc' = "clear_history"
    /\ UNCHANGED <<wake_event, conversation_history, turn_count, response, routed, decision,
                   agent_calls, all_answered, failure, running>>
    /\ UNCHANGED notLoop

\* Lines 147-152
FollowUpSilence ==
    /\ pc = "listen_followup"
    /\ \E follow_up \in FollowUpCaptures :
        /\ ~Truthy(follow_up)
        /\ seg' = Log(seg, <<Capture(follow_up), Emit("CONVERSATION_ENDED", <<>>)>>)
    /\ ended' = Count(ended)
    /\ all_answered' = FALSE
    /\ pc' = AfterSilence
    /\ UNCHANGED <<wake_event, conversation_history, turn_count, response, routed, decision,
                   agent_calls, all_follow_up, failure, running>>
    /\ UNCHANGED notLoop

\* Lines 147-160
FollowUpCancelled ==
    /\ pc = "listen_followup"
    /\ \E follow_up \in FollowUpCaptures :
        /\ Truthy(follow_up)
        /\ IsExitPhrase(follow_up)
        /\ seg' = Log(seg, <<Capture(follow_up), Speak(OkayCancelled),
                             Emit("CONVERSATION_ENDED", <<>>)>>)
    /\ ended' = Count(ended)
    /\ all_answered' = FALSE
    /\ pc' = "clear_history"
    /\ UNCHANGED <<wake_event, conversation_history, turn_count, response, routed, decision,
                   agent_calls, all_follow_up, failure, running>>
    /\ UNCHANGED notLoop

\* Lines 147-165
FollowUpAccepted ==
    /\ pc = "listen_followup"
    /\ \E follow_up \in FollowUpCaptures :
        /\ Truthy(follow_up)
        /\ ~IsExitPhrase(follow_up)
        /\ seg' = Log(seg, <<Capture(follow_up), Emit("COMMAND_RECEIVED", follow_up)>>)
        /\ conversation_history' = Append(conversation_history, follow_up)
    /\ turn_count' = turn_count + 1
    /\ pc' = "turn"
    /\ UNCHANGED <<wake_event, response, routed, decision, agent_calls, ended,
                   all_follow_up, all_answered, failure, running>>
    /\ UNCHANGED notLoop

\* Line 173
ClearHistory ==
    /\ pc = "clear_history"
    /\ conversation_history' = <<>>
    /\ pc' = "loop_top"
    /\ UNCHANGED <<wake_event, turn_count, response, routed, decision, agent_calls, seg,
                   ended, all_follow_up, all_answered, failure, running>>
    /\ UNCHANGED notLoop

\* BackendRunner._run_backend, lines 146-165: the exception leaves
\* run_sentinel_agent (which catches KeyboardInterrupt only) and ends the thread.
BackendExcept ==
    /\ pc = "raised"
    /\ seg' = Log(seg, <<Emit("BACKEND_ERROR", <<>>), Emit("BACKEND_STOPPED", <<>>)>>)
    /\ running' = FALSE
    /\ pc' = "stopped"
    /\ UNCHANGED <<wake_event, conversation_history, turn_count, response, routed, decision,
                   agent_calls, ended, all_follow_up, all_answered, failure>>
    /\ UNCHANGED notLoop

\* The steps of the backend worker thread.
WorkerStep ==
    \/ EmitListening
    \/ WakeWait
    \/ WakeClear
    \/ CommandRecognized
    \/ NoCommand
    \/ RouteTurn
    \/ TurnLimit
    \/ SpeakResponse
    \/ FollowUpDetected
    \/ FinalAnswerGiven
    \/ FollowUpSilence
    \/ FollowUpCancelled
    \/ FollowUpAccepted
    \/ ClearHistory
    \/ BackendExcept

LoopNext == WorkerStep \/ ListenerDetects \/ RoutingRaises \/ AgentRaises

-----------------------------------------------------------------------------
(* The short-term memory: agent_memory.py *)

COMMAND == "command"
AGENT_ACTION == "agent_action"
ERROR == "error"
RESULT == "result"

DEFAULT_TTL_HOURS == 24
FallbackCap == 100
MinutesPerHour == 60


\* Bounds of the memory model.
MaxStores == 2
MaxAdvances == 1
MaxSessions == 1

NoUser == "no user"
NoSession == <<"session", 0>>
NoAgent == "no agent"
NoTtl == -1
NoTypes == {}
NoId == <<"none", 0>>

\* The user named by user_context.json (_get_user_id_from_context).
ContextUser == "u1"
UserArgs == {NoUser, "u2"}
MemoryTypes == {COMMAND, AGENT_ACTION}
Contents == {"x", "y"}
TtlArgs == {NoTtl, 0}
MinutesArgs == {0, 30}
LimitArgs == {1, 2}
TypesArgs == {NoTypes, {COMMAND}}
ClockSteps == {1, 45, 1440}
\* Arguments of get_session_history and clear_session.
SessionArgs == {NoSession, <<"session", 1>>}
HistoryLimitArgs == {1, 2}
\* Arguments of get_context_for_agent.
AgentArgs == {NoAgent, "Browser"}
ContextMinutesArgs == {15}
MaxEntriesArgs == {1, 2}
\* Argument of clear_old_memories.
HoursArgs == {1}

\* The store() calls tried: commands with either payload; the other types, the
\* explicit user and a zero TTL with the payload "x" only.
StoreTried(memory_type, content, user_id, ttl_hours) ==
    /\ (memory_type # COMMAND => content = "x")
    /\ (ttl_hours # NoTtl => memory_type = COMMAND /\ content = "x" /\ user_id = NoUser)

\* The entry as the log of writes keeps it: the document and the ttl_hours
\* argument it was stored with.
Written(doc, ttl_hours) == doc @@ [ttl_hours |-> ttl_hours]

\* What insert_one can do: succeed, raise a PyMongoError (server unreachable,
\* write error), or raise an error of another family (bson's InvalidDocument
\* for a payload BSON cannot encode, which is no PyMongoError).
InsertOutcomes == {"ok", "PyMongoError", "InvalidDocument"}
\* What find can do.
FindOutcomes == {"ok", "PyMongoError"}
\* What delete_many can do.
DeleteOutcomes == {"ok", "PyMongoError"}

\* user_id or self._current_user_id or self._get_user_id_from_context()
ResolveUser(user_id) ==
    IF user_id # NoUser THEN user_id
    ELSE IF current_user_id # NoUser THEN current_user_id
    ELSE ContextUser

\* ttl_hours or self.DEFAULT_TTL_HOURS
ResolveTtl(ttl_hours) ==
    IF ttl_hours = NoTtl \/ ttl_hours = 0 THEN DEFAULT_TTL_HOURS ELSE ttl_hours

\* store, lines 186-201: the memory document
MemoryDoc(memory_type, content, agent, session_id, user_id, ttl_hours) ==
    [id |-> NoId,
     user_id |-> ResolveUser(user_id),
     session_id |-> IF session_id # NoSession THEN session_id ELSE current_session_id,
     timestamp |-> clock,
     type |-> memory_type,
     agent |-> agent,
     content |-> content,
     expires_at |-> clock + ResolveTtl(ttl_hours) * MinutesPerHour]

\* self._memory_fallback[:100]: the oldest entries are kept.
KeepFirst(list, n) == SubSeq(list, 1, IF n < Len(list) THEN n ELSE Len(list))

\* self._memory_fallback[-100:]
KeepLast(list, n) ==
    IF Len(list) > n THEN SubSeq(list, Len(list) - n + 1, Len(list)) ELSE list

\* list[:limit], limit >= 0
Take(list, limit) == SubSeq(list, 1, IF limit < Len(list) THEN limit ELSE Len(list))

\* `self.mongodb_available and self.memory_collection`
UseDurable == mongodb_available

\* store, lines 205-211: whether a failed insert_one falls through to the
\* in-memory list (`except PyMongoError`).
InsertCaught(outcome) == outcome = "PyMongoError"

MemoryInit ==
    /\ mongodb_available \in BOOLEAN
    /\ memory_collection = <<>>
    /\ memory_fallback = <<>>
    /\ current_session_id = NoSession
    /\ current_user_id = NoUser
    /\ clock = 0
    /\ advances = 0
    /\ n_stores = 0
    /\ n_sessions = 0
    /\ m_ret = [op |-> "none", raised |-> FALSE]
    /\ stored_log = <<>>

MemoryIdle ==
    /\ mongodb_available = FALSE
    /\ memory_collection = <<>>
    /\ memory_fallback = <<>>
    /\ current_session_id = NoSession
    /\ current_user_id = NoUser
    /\ clock = 0
    /\ advances = 0
    /\ n_stores = 0
    /\ n_sessions = 0
    /\ m_ret = [op |-> "off", raised |-> FALSE]
    /\ stored_log = <<>>

\* start_session
StartSession ==
    /\ m_ret.op = "none"
    /\ n_sessions < MaxSessions
    /\ current_user_id' = ContextUser
    /\ current_session_id' = <<"session", n_sessions + 1>>
    /\ n_sessions' = n_sessions + 1
    /\ m_ret' = [op |-> "start_session", raised |-> FALSE]
    /\ UNCHANGED <<mongodb_available, memory_collection, memory_fallback, clock, advances,
                   n_stores, stored_log>>
    /\ UNCHANGED notMemory

\* datetime.utcnow() moves on.
AdvanceClock ==
    /\ m_ret.op = "none"
    /\ advances < MaxAdvances
    /\ \E d \in ClockSteps : clock' = clock + d
    /\ advances' = advances + 1
    /\ UNCHANGED <<mongodb_available, memory_collection, memory_fallback, current_session_id,
                   current_user_id, n_stores, n_sessions, m_ret, stored_log>>
    /\ UNCHANGED notMemory

\* The TTL index on expires_at (_create_indexes, lines 114-118): the server
\* deletes the documents whose expires_at has been reached.
TTLMonitor ==
    /\ m_ret.op = "none"
    /\ \E i \in 1..Len(memory_collection) : memory_collection[i].expires_at <= clock
    /\ memory_collection' = SelectSeq(memory_collection, LAMBDA m : m.expires_at > clock)
    /\ UNCHANGED <<mongodb_available, memory_fallback, current_session_id, current_user_id,
                   clock, advances, n_stores, n_sessions, m_ret, stored_log>>
    /\ UNCHANGED notMemory

\* store: the insert succeeds.
StoreDurable ==
    /\ m_ret.op = "none"
    /\ n_stores < MaxStores
    /\ UseDurable
    /\ \E memory_type \in MemoryTypes, content \in Contents, user_id \in UserArgs,
          ttl_hours \in TtlArgs :
        /\ StoreTried(memory_type, content, user_id, ttl_hours)
        /\ LET agent == IF memory_type = AGENT_ACTION THEN "Music" ELSE NoAgent
               doc == [MemoryDoc(memory_type, content, agent, NoSession, user_id, ttl_hours)
                           EXCEPT !.id = <<"ObjectId", n_stores + 1>>]
           IN  /\ memory_collection' = Append(memory_collection, doc)
               /\ m_ret' = [op |-> "store", raised |-> FALSE, insert |-> "ok", value |-> doc.id]
               /\ stored_log' = Append(stored_log, Written(doc, ttl_hours))
    /\ n_stores' = n_stores + 1
    /\ UNCHANGED <<mongodb_available, memory_fallback, current_session_id, current_user_id,
                   clock, advances, n_sessions>>
    /\ UNCHANGED notMemory

\* store: the durable tier is not in use, or insert_one raised an error that
\* the `except` clause catches; the entry goes to the in-memory list.
StoreFallback ==
    /\ m_ret.op = "none"
    /\ n_stores < MaxStores
    /\ \E memory_type \in MemoryTypes, content \in Contents, user_id \in UserArgs,
          ttl_hours \in TtlArgs, outcome \in InsertOutcomes \cup {"not tried"} :
        /\ StoreTried(memory_type, content, user_id, ttl_hours)
        /\ LET agent == IF memory_type = AGENT_ACTION THEN "Music" ELSE NoAgent
               doc == [MemoryDoc(memory_type, content, agent, NoSession, user_id, ttl_hours)
                           EXCEPT !.id = <<"uuid4", n_stores + 1>>]
           IN  /\ IF UseDurable THEN outcome \notin {"ok", "not tried"} /\ InsertCaught(outcome)
                  ELSE outcome = "not tried"
               /\ memory_fallback' = KeepLast(Append(memory_fallback, doc), FallbackCap)
               /\ m_ret' = [op |-> "store", raised |-> FALSE, insert |-> outcome,
                            value |-> doc.id]
               /\ stored_log' = Append(stored_log, Written(doc, ttl_hours))
    /\ n_stores' = n_stores + 1
    /\ UNCHANGED <<mongodb_available, memory_collection, current_session_id, current_user_id,
                   clock, advances, n_sessions>>
    /\ UNCHANGED notMemory

\* store: insert_one raised an error that the `except` clause does not catch;
\* it leaves store().
StoreRaises ==
    /\ m_ret.op = "none"
    /\ n_stores < MaxStores
    /\ UseDurable
    /\ \E outcome \in InsertOutcomes :
        /\ outcome # "ok"
        /\ ~InsertCaught(outcome)
        /\ m_ret' = [op |-> "store", raised |-> TRUE, insert |-> outcome, value |-> NoId]
    /\ n_stores' = n_stores + 1
    /\ UNCHANGED <<mongodb_available, memory_collection, memory_fallback, current_session_id,
                   current_user_id, clock, advances, n_sessions, stored_log>>
    /\ UNCHANGED notMemory

\* Bound on the store_command calls of the fallback model: past the cap of the
\* in-memory list.
MaxFallbackStores == 102

\* store_command (lines 223-229) while the durable tier is not in use or its
\* insert raises PyMongoError: store, lines 186-221, in-memory branch.
StoreCommand ==
    /\ m_ret.op = "none"
    /\ n_stores < MaxFallbackStores
    /\ LET doc == [MemoryDoc(COMMAND, "x", NoAgent, NoSession, NoUser, NoTtl)
                       EXCEPT !.id = <<"uuid4", n_stores + 1>>]
       IN  /\ memory_fallback' = KeepLast(Append(memory_fallback, doc), FallbackCap)
           /\ m_ret' = [op |-> "store", raised |-> FALSE,
                        insert |-> IF UseDurable THEN "PyMongoError" ELSE "not tried",
                        value |-> doc.id]
           /\ stored_log' = Append(stored_log, Written(doc, NoTtl))
    /\ n_stores' = n_stores + 1
    /\ UNCHANGED <<mongodb_available, memory_collection, current_session_id, current_user_id,
                   clock, advances, n_sessions>>
    /\ UNCHANGED notMemory

\* The documents of `docs` (in their stored order) that a query matches.
Matching(docs, user_id, cutoff, memory_types) ==
    SelectSeq(docs, LAMBDA m :
        /\ m.user_id = user_id
        /\ m.timestamp >= cutoff
        /\ (memory_types # NoTypes => m.type \in memory_types))

\* sorted(results, key=timestamp, reverse=True): a stable sort, so entries with
\* equal timestamps keep their order in the list.
RECURSIVE SortedRecentFirst(_)
SortedRecentFirst(docs) ==
    IF docs = <<>> THEN <<>>
    ELSE LET newest == CHOOSE i \in 1..Len(docs) :
                 /\ \A j \in 1..Len(docs) : docs[j].timestamp <= docs[i].timestamp
                 /\ \A j \in 1..(i - 1) : docs[j].timestamp < docs[i].timestamp
             others == [k \in 1..(Len(docs) - 1) |-> IF k < newest THEN docs[k] ELSE docs[k + 1]]
         IN  <<docs[newest]>> \o SortedRecentFirst(others)

\* cursor.sort("timestamp", DESCENDING): the server promises no order among
\* documents of equal timestamp, so every descending arrangement is possible.
DescendingOrders(docs) ==
    LET n == Len(docs)
        perms == {p \in [1..n -> 1..n] :
                     /\ \A i, j \in 1..n : i # j => p[i] # p[j]
                     /\ \A i \in 1..(n - 1) : docs[p[i]].timestamp >= docs[p[i + 1]].timestamp}
    IN  {[i \in 1..n |-> docs[p[i]]] : p \in perms}

\* get_recent_memories, lines 367-374: the read served by the in-memory list.
FallbackRecent(user_id, minutes, limit, memory_types) ==
    Take(SortedRecentFirst(Matching(memory_fallback, user_id, clock - minutes, memory_types)),
         limit)

\* get_recent_memories, lines 349-363: the reads the durable tier may serve.
DurableRecent(user_id, minutes, limit, memory_types) ==
    {Take(o, limit) :
        o \in DescendingOrders(Matching(memory_collection, user_id, clock - minutes,
                                        memory_types))}

\* get_recent_memories
GetRecentMemories ==
    /\ m_ret.op = "none"
    /\ \E user_arg \in UserArgs, minutes \in MinutesArgs, limit \in LimitArgs,
          memory_types \in TypesArgs, outcome \in FindOutcomes \cup {"not tried"} :
        LET user_id == ResolveUser(user_arg)
            args == [user_id |-> user_id, minutes |-> minutes, limit |-> limit,
                     memory_types |-> memory_types]
        IN  /\ IF UseDurable THEN outcome # "not tried" ELSE outcome = "not tried"
            /\ \E result \in IF outcome = "ok"
                             THEN DurableRecent(user_id, minutes, limit, memory_types)
                             ELSE {FallbackRecent(user_id, minutes, limit, memory_types)} :
                   m_ret' = [op |-> "get_recent_memories", raised |-> FALSE,
                             find |-> outcome, args |-> args, value |-> result]
    /\ UNCHANGED <<mongodb_available, memory_collection, memory_fallback, current_session_id,
                   current_user_id, clock, advances, n_stores, n_sessions, stored_log>>
    /\ UNCHANGED notMemory

\* cursor.sort("timestamp", 1): every ascending arrangement is possible, the
\* server promising no order among documents of equal timestamp.
AscendingOrders(docs) ==
    LET n == Len(docs)
        perms == {p \in [1..n -> 1..n] :
                     /\ \A i, j \in 1..n : i # j => p[i] # p[j]
                     /\ \A i \in 1..(n - 1) : docs[p[i]].timestamp <= docs[p[i + 1]].timestamp}
    IN  {[i \in 1..n |-> docs[p[i]]] : p \in perms}

\* The entries of `docs` that belong to a session.
OfSession(docs, session_id) == SelectSeq(docs, LAMBDA m : m.session_id = session_id)

\* get_session_history, line 325: the read served by the in-memory list,
\* [...][-limit:] with limit > 0.
FallbackHistory(docs, session_id, limit) == KeepLast(OfSession(docs, session_id), limit)

\* get_session_history, lines 316-320: the reads the durable tier may serve.
DurableHistory(docs, session_id, limit) ==
    {Take(o, limit) : o \in AscendingOrders(OfSession(docs, session_id))}

\* get_session_history
GetSessionHistory ==
    /\ m_ret.op = "none"
    /\ \E session_arg \in SessionArgs, limit \in HistoryLimitArgs,
          outcome \in FindOutcomes \cup {"not tried"} :
        LET session_id == IF session_arg # NoSession THEN session_arg ELSE current_session_id
            args == [session_id |-> session_id, limit |-> limit]
        IN  /\ IF UseDurable /\ session_id # NoSession THEN outcome # "not tried"
               ELSE outcome = "not tried"
            /\ \E result \in IF session_id = NoSession THEN {<<>>}
                             ELSE IF outcome = "ok"
                             THEN DurableHistory(memory_collection, session_id, limit)
                             ELSE {FallbackHistory(memory_fallback, session_id, limit)} :
                   m_ret' = [op |-> "get_session_history", raised |-> FALSE,
                             find |-> outcome, args |-> args, value |-> result]
    /\ UNCHANGED <<mongodb_available, memory_collection, memory_fallback, current_session_id,
                   current_user_id, clock, advances, n_stores, n_sessions, stored_log>>
    /\ UNCHANGED notMemory

\* get_context_for_agent, lines 397-401: the types asked of get_recent_memories.
ContextTypes == {COMMAND, AGENT_ACTION, RESULT}

ContextHeader == <<"[Recent Activity]">>
ContextFooter == <<"">>

\* get_context_for_agent, lines 418-432: the line rendered for one entry (the
\* payloads tried name no tools).
ContextLine(memory) ==
    IF memory.type = COMMAND THEN <<"User asked: ", memory.content>>
    ELSE IF memory.type = AGENT_ACTION
    THEN <<IF memory.agent # NoAgent THEN memory.agent ELSE "Unknown",
           " agent responded: ", memory.content>>
    ELSE <<"Result: ", memory.content>>

\* Line 415: `not include_other_agents and mem_agent and mem_agent != agent`
SkippedForAgent(memory, agent, include_other_agents) ==
    ~include_other_agents /\ memory.agent # NoAgent /\ memory.agent # agent

Reverse(list) == [i \in 1..Len(list) |-> list[Len(list) + 1 - i]]

\* get_context_for_agent, lines 402-438, on the list get_recent_memories gave:
\* the lines that "\n".join puts together, none for the empty string.
ContextFor(memories, agent, include_other_agents, max_entries) ==
    IF memories = <<>> THEN <<>>
    ELSE LET shown == SelectSeq(Reverse(Take(memories, max_entries)),
                                LAMBDA m : ~SkippedForAgent(m, agent, include_other_agents))
             context_lines == [i \in 1..Len(shown) |-> ContextLine(shown[i])]
         IN  IF context_lines = <<>> THEN <<>>
             ELSE <<ContextHeader>> \o context_lines \o <<ContextFooter>>

\* get_context_for_agent; a caller may repeat its call with the same arguments.
GetContextForAgent ==
    /\ m_ret.op \in {"none", "get_context_for_agent"}
    /\ \E agent \in AgentArgs, include_other_agents \in BOOLEAN,
          minutes \in ContextMinutesArgs, max_entries \in MaxEntriesArgs,
          outcome \in FindOutcomes \cup {"not tried"} :
        LET user_id == ResolveUser(NoUser)
            args == [agent |-> agent, include_other_agents |-> include_other_agents,
                     minutes |-> minutes, max_entries |-> max_entries]
        IN  /\ m_ret.op = "get_context_for_agent" => args = m_ret.args
            /\ IF UseDurable THEN outcome # "not tried" ELSE outcome = "not tried"
            /\ \E memories \in IF outcome = "ok"
                               THEN DurableRecent(user_id, minutes, max_entries * 2,
                                                  ContextTypes)
                               ELSE {FallbackRecent(user_id, minutes, max_entries * 2,
                                                    ContextTypes)} :
                   m_ret' = [op |-> "get_context_for_agent", raised |-> FALSE,
                             find |-> outcome, args |-> args,
                             value |-> ContextFor(memories, agent, include_other_agents,
                                                  max_entries)]
    /\ UNCHANGED <<mongodb_available, memory_collection, memory_fallback, current_session_id,
                   current_user_id, clock, advances, n_stores, n_sessions, stored_log>>
    /\ UNCHANGED notMemory

\* clear_session
ClearSession ==
    /\ m_ret.op = "none"
    /\ \E session_arg \in SessionArgs, outcome \in DeleteOutcomes \cup {"not tried"} :
        LET session_id == IF session_arg # NoSession THEN session_arg ELSE current_session_id
        IN  /\ session_id # NoSession
            /\ IF UseDurable THEN outcome # "not tried" ELSE outcome = "not tried"
            /\ memory_collection' =
                   IF outcome = "ok"
                   THEN SelectSeq(memory_collection, LAMBDA m : m.session_id # session_id)
                   ELSE memory_collection
            /\ memory_fallback' =
                   SelectSeq(memory_fallback, LAMBDA m : m.session_id # session_id)
            /\ m_ret' = [op |-> "clear_session", raised |-> FALSE, delete |-> outcome]
    /\ UNCHANGED <<mongodb_available, current_session_id, current_user_id, clock, advances,
                   n_stores, n_sessions, stored_log>>
    /\ UNCHANGED notMemory

\* clear_old_memories
ClearOldMemories ==
    /\ m_ret.op = "none"
    /\ \E hours \in HoursArgs, outcome \in DeleteOutcomes \cup {"not tried"} :
        LET cutoff == clock - hours * MinutesPerHour
        IN  /\ IF UseDurable THEN outcome # "not tried" ELSE outcome = "not tried"
            /\ memory_collection' =
                   IF outcome = "ok"
                   THEN SelectSeq(memory_collection, LAMBDA m : ~(m.timestamp < cutoff))
                   ELSE memory_collection
            /\ memory_fallback' = SelectSeq(memory_fallback, LAMBDA m : m.timestamp >= cutoff)
            /\ m_ret' = [op |-> "clear_old_memories", raised |-> FALSE, delete |-> outcome]
    /\ UNCHANGED <<mongodb_available, current_session_id, current_user_id, clock, advances,
                   n_stores, n_sessions, stored_log>>
    /\ UNCHANGED notMemory

\* The caller has taken the result of its call and goes on.
Returned ==
    /\ m_ret.op \notin {"none", "off"}
    /\ m_ret' = [op |-> "none", raised |-> FALSE]
    /\ UNCHANGED <<mongodb_available, memory_collection, memory_fallback, current_session_id,
                   current_user_id, clock, advances, n_stores, n_sessions, stored_log>>
    /\ UNCHANGED notMemory

MemoryNext ==
    \/ Returned
    \/ StartSession
    \/ AdvanceClock
    \/ TTLMonitor
    \/ StoreDurable
    \/ StoreFallback
    \/ StoreRaises
    \/ GetRecentMemories
    \/ GetSessionHistory
    \/ GetContextForAgent
    \/ ClearSession
    \/ ClearOldMemories

-----------------------------------------------------------------------------
(* The event bus: integration/event_bus.py *)

\* Bounds of the event bus model.
MaxEmits == 2
MaxClears == 1

\* The threads that emit: the conversation worker and the thread that calls
\* BackendRunner.stop().
Producers == {"worker", "ui"}
EventTypesTried == {"log_message"}

\* Queue.put at the head of the queue instead of its tail.
PutFirst(queue, event) == <<event>> \o queue

\* Queue.put (emit, line 116): the queue is unbounded and FIFO.
Put(queue, event) == Append(queue, event)

BusInit ==
    /\ frontend_queue = <<>>
    /\ subscribers = {}
    /\ b_pending = [p \in Producers |-> <<>>]
    /\ b_emitted = [p \in Producers |-> 0]
    /\ b_received = <<>>
    /\ b_got = <<>>
    /\ b_notified = <<>>
    /\ b_clears = 0
    /\ b_clearing = FALSE

BusIdle ==
    /\ frontend_queue = <<>>
    /\ subscribers = {}
    /\ b_pending = [p \in Producers |-> <<>>]
    /\ b_emitted = [p \in Producers |-> MaxEmits]
    /\ b_received = <<>>
    /\ b_got = <<>>
    /\ b_notified = <<>>
    /\ b_clears = MaxClears
    /\ b_clearing = FALSE

\* emit, lines 108-116: the event is built and put on the frontend queue.
EmitPut(p) ==
    /\ b_pending[p] = <<>>
    /\ b_emitted[p] < MaxEmits
    /\ \E event_type \in EventTypesTried :
        LET event == [producer |-> p, seq |-> b_emitted[p] + 1, type |-> event_type]
        IN  /\ frontend_queue' = Put(frontend_queue, event)
            /\ b_pending' = [b_pending EXCEPT ![p] = <<event>>]
    /\ b_emitted' = [b_emitted EXCEPT ![p] = @ + 1]
    /\ UNCHANGED <<subscribers, b_received, b_got, b_notified, b_clears, b_clearing>>
    /\ UNCHANGED notBus

\* emit, lines 118-124: the subscribers of the event's type are called on the
\* emitting thread; what a callback raises is swallowed.
EmitNotify(p) ==
    /\ b_pending[p] # <<>>
    /\ b_notified' = IF b_pending[p][1].type \in subscribers
                     THEN Append(b_notified, b_pending[p][1])
                     ELSE b_notified
    /\ b_pending' = [b_pending EXCEPT ![p] = <<>>]
    /\ UNCHANGED <<frontend_queue, subscribers, b_emitted, b_received, b_got, b_clears,
                   b_clearing>>
    /\ UNCHANGED notBus

\* subscribe
Subscribe ==
    /\ \E event_type \in EventTypesTried :
        /\ event_type \notin subscribers
        /\ subscribers' = subscribers \cup {event_type}
    /\ UNCHANGED <<frontend_queue, b_pending, b_emitted, b_received, b_got, b_notified,
                   b_clears, b_clearing>>
    /\ UNCHANGED notBus

\* get_event(block=False): the head of the queue, or None when it is empty.
GetEvent ==
    /\ b_emitted # [p \in Producers |-> 0]
    /\ IF frontend_queue # <<>>
       THEN /\ b_got' = <<Head(frontend_queue)>>
            /\ b_received' = Append(b_received, Head(frontend_queue))
            /\ frontend_queue' = Tail(frontend_queue)
       ELSE /\ b_got' = <<>>
            /\ UNCHANGED <<b_received, frontend_queue>>
    /\ UNCHANGED <<subscribers, b_pending, b_emitted, b_notified, b_clears, b_clearing>>
    /\ UNCHANGED notBus

\* clear, lines 194-198: one turn of the loop that empties the frontend queue
\* by get_nowait, other threads being free to run between two turns.
Clear ==
    /\ IF ~b_clearing
       THEN /\ b_clears < MaxClears
            /\ b_emitted # [p \in Producers |-> 0]
            /\ b_clears' = b_clears + 1
            /\ b_clearing' = TRUE
            /\ UNCHANGED frontend_queue
       ELSE /\ IF frontend_queue # <<>>
               THEN frontend_queue' = Tail(frontend_queue) /\ UNCHANGED b_clearing
               ELSE b_clearing' = FALSE /\ UNCHANGED frontend_queue
            /\ UNCHANGED b_clears
    /\ UNCHANGED <<subscribers, b_pending, b_emitted, b_received, b_got, b_notified>>
    /\ UNCHANGED notBus

BusNext ==
    \/ \E p \in Producers : EmitPut(p)
    \/ \E p \in Producers : EmitNotify(p)
    \/ Subscribe
    \/ GetEvent
    \/ Clear

-----------------------------------------------------------------------------
(* The backend runner: integration/backend_runner_v2.py *)

\* Bounds of the runner model: the threads start() may create, the events
\* logged and the requests put on the reverse channel.
MaxThreads == 2
MaxRunnerLog == 5
MaxRequests == 1

\* BackendRunner.__init__ and the reverse channel before any request.
RunnerInit ==
    /\ r_threads = <<>>
    /\ r_log = <<>>
    /\ backend_queue = <<>>

\* start
Start ==
    /\ ~running
    /\ Len(r_threads) < MaxThreads
    /\ running' = TRUE
    /\ r_threads' = Append(r_threads, "starting")
    /\ UNCHANGED <<r_log, backend_queue>>
    /\ UNCHANGED notRunner

\* _run_backend, lines 76-144: BACKEND_STARTING, the imports, BACKEND_READY and
\* the call of run_sentinel_agent.
RunBackend(t) ==
    /\ r_threads[t] \in {"starting", "loading"}
    /\ Len(r_log) < MaxRunnerLog
    /\ IF r_threads[t] = "starting"
       THEN /\ r_log' = Append(r_log, "BACKEND_STARTING")
            /\ r_threads' = [r_threads EXCEPT ![t] = "loading"]
       ELSE /\ r_log' = Append(r_log, "BACKEND_READY")
            /\ r_threads' = [r_threads EXCEPT ![t] = "agent"]
    /\ UNCHANGED <<running, backend_queue>>
    /\ UNCHANGED notRunner

\* run_sentinel_agent, top of `while True` (orchestrator.py line 97): the loop
\* reads neither BackendRunner.running nor the backend queue.
AgentLoop(t) ==
    /\ r_threads[t] = "agent"
    /\ Len(r_log) < MaxRunnerLog
    /\ r_log' = Append(r_log, "LISTENING_FOR_WAKE_WORD")
    /\ UNCHANGED <<running, r_threads, backend_queue>>
    /\ UNCHANGED notRunner

\* _run_backend, lines 146-165: an exception ends the thread.
BackendFails(t) ==
    /\ r_threads[t] \in {"loading", "agent"}
    /\ Len(r_log) + 2 <= MaxRunnerLog
    /\ r_log' = r_log \o <<"BACKEND_ERROR", "BACKEND_STOPPED">>
    /\ running' = FALSE
    /\ r_threads' = [r_threads EXCEPT ![t] = "ended"]
    /\ UNCHANGED backend_queue
    /\ UNCHANGED notRunner

\* stop
Stop ==
    /\ Len(r_log) < MaxRunnerLog
    /\ running' = FALSE
    /\ r_log' = Append(r_log, "BACKEND_STOPPED")
    /\ UNCHANGED <<r_threads, backend_queue>>
    /\ UNCHANGED notRunner

\* send_to_backend(EventType.SHUTDOWN_REQUEST): no code calls get_backend_event.
SendShutdownRequest ==
    /\ Len(backend_queue) < MaxRequests
    /\ backend_queue' = Append(backend_queue, "SHUTDOWN_REQUEST")
    /\ UNCHANGED <<running, r_threads, r_log>>
    /\ UNCHANGED notRunner

RunnerNext ==
    \/ Start
    \/ Stop
    \/ SendShutdownRequest
    \/ \E t \in DOMAIN r_threads : RunBackend(t)
    \/ \E t \in DOMAIN r_threads : AgentLoop(t)
    \/ \E t \in DOMAIN r_threads : BackendFails(t)

-----------------------------------------------------------------------------
(* First construction of the event bus: event_bus.py, lines 77-95 *)

\* The threads that call EventBus() before any instance exists.
Constructors == {"t1", "t2"}

SingletonInit ==
    /\ s_pc = [t \in Constructors |-> "new"]
    /\ s_instance = "None"
    /\ s_lock = "free"
    /\ s_initialized = "unset"
    /\ s_inits = 0
    /\ s_sent = <<>>

\* The instance has been built by the thread that imported the bus first.
SingletonIdle ==
    /\ s_pc = [t \in Constructors |-> "off"]
    /\ s_instance = "object"
    /\ s_lock = "free"
    /\ s_initialized = "True"
    /\ s_inits = 1
    /\ s_sent = <<>>

\* __new__, lines 80-86, one statement at a time.
New(t) ==
    /\ s_pc[t] \in {"new", "acquire", "locked", "flag"}
    /\ CASE s_pc[t] = "new" ->
              /\ s_pc' = [s_pc EXCEPT ![t] = IF s_instance = "None" THEN "acquire" ELSE "init"]
              /\ UNCHANGED <<s_instance, s_lock, s_initialized>>
         [] s_pc[t] = "acquire" ->
              /\ s_lock = "free"
              /\ s_lock' = t
              /\ s_pc' = [s_pc EXCEPT ![t] = "locked"]
              /\ UNCHANGED <<s_instance, s_initialized>>
         [] s_pc[t] = "locked" ->
              IF s_instance = "None"
              THEN /\ s_instance' = "object"
                   /\ s_pc' = [s_pc EXCEPT ![t] = "flag"]
                   /\ UNCHANGED <<s_lock, s_initialized>>
              ELSE /\ s_lock' = "free"
                   /\ s_pc' = [s_pc EXCEPT ![t] = "init"]
                   /\ UNCHANGED <<s_instance, s_initialized>>
         [] s_pc[t] = "flag" ->
              /\ s_initialized' = "False"
              /\ s_lock' = "free"
              /\ s_pc' = [s_pc EXCEPT ![t] = "init"]
              /\ UNCHANGED s_instance
    /\ UNCHANGED <<s_inits, s_sent, frontend_queue, backend_queue, subscribers>>
    /\ UNCHANGED notSingleton

\* __init__, lines 88-95, one statement at a time; no lock is held. Reading
\* _initialized before line 85 has set it raises AttributeError.
Initialize(t) ==
    /\ s_pc[t] \in {"init", "queues", "table", "mark"}
    /\ CASE s_pc[t] = "init" ->
              /\ s_pc' = [s_pc EXCEPT ![t] = CASE s_initialized = "unset" -> "raised"
                                                [] s_initialized = "True" -> "built"
                                                [] OTHER -> "queues"]
              /\ UNCHANGED <<s_initialized, s_inits, frontend_queue, backend_queue, subscribers>>
         [] s_pc[t] = "queues" ->
              /\ frontend_queue' = <<>>
              /\ backend_queue' = <<>>
              /\ s_inits' = s_inits + 1
              /\ s_pc' = [s_pc EXCEPT ![t] = "table"]
              /\ UNCHANGED <<s_initialized, subscribers>>
         [] s_pc[t] = "table" ->
              /\ subscribers' = {}
              /\ s_pc' = [s_pc EXCEPT ![t] = "mark"]
              /\ UNCHANGED <<s_initialized, s_inits, frontend_queue, backend_queue>>
         [] s_pc[t] = "mark" ->
              /\ s_initialized' = "True"
              /\ s_pc' = [s_pc EXCEPT ![t] = "built"]
              /\ UNCHANGED <<s_inits, frontend_queue, backend_queue, subscribers>>
    /\ UNCHANGED <<s_instance, s_lock, s_sent>>
    /\ UNCHANGED notSingleton

\* The caller uses the instance it was handed: it emits an event (line 116),
\* then subscribes (lines 134-136).
UseBus(t) ==
    /\ s_pc[t] \in {"built", "emitted"}
    /\ IF s_pc[t] = "built"
       THEN LET event == [producer |-> t, seq |-> 1, type |-> "log_message"]
            IN  /\ frontend_queue' = Put(frontend_queue, event)
                /\ s_sent' = Append(s_sent, event)
                /\ s_pc' = [s_pc EXCEPT ![t] = "emitted"]
                /\ UNCHANGED subscribers
       ELSE /\ subscribers' = subscribers \cup {"log_message"}
            /\ s_pc' = [s_pc EXCEPT ![t] = "used"]
            /\ UNCHANGED <<frontend_queue, s_sent>>
    /\ UNCHANGED <<s_instance, s_lock, s_initialized, s_inits, backend_queue>>
    /\ UNCHANGED notSingleton

SingletonNext ==
    \/ \E t \in Constructors : New(t)
    \/ \E t \in Constructors : Initialize(t)
    \/ \E t \in Constructors : UseBus(t)

-----------------------------------------------------------------------------
(* Timers and alarms: tools/productivity_tools.py *)

\* Bounds of the timer model.
MaxTimers == 2
MaxAlarms == 1

TimerInit ==
    /\ active_timers = {}
    /\ active_alarms = {}
    /\ timer_id_counter = 0
    /\ alarm_id_counter = 0
    /\ t_pc = <<>>
    /\ c_pc = "idle"
    /\ c_id = 0
    /\ c_ok = {}

\* set_timer, lines 84-106: the thread is started and the timer is stored (the
\* shortest duration is a minute, so the thread cannot fire in between).
SetTimer ==
    /\ timer_id_counter < MaxTimers
    /\ timer_id_counter' = timer_id_counter + 1
    /\ t_pc' = Append(t_pc, "waiting")
    /\ active_timers' = active_timers \cup {timer_id_counter + 1}
    /\ UNCHANGED <<active_alarms, alarm_id_counter, c_pc, c_id, c_ok>>
    /\ UNCHANGED notTimer

\* set_alarm, lines 180-198
SetAlarm ==
    /\ alarm_id_counter < MaxAlarms
    /\ alarm_id_counter' = alarm_id_counter + 1
    /\ active_alarms' = active_alarms \cup {alarm_id_counter + 1}
    /\ UNCHANGED <<active_timers, timer_id_counter, t_pc, c_pc, c_id, c_ok>>
    /\ UNCHANGED notTimer

\* The threading.Timer thread of timer_id fires and runs timer_callback
\* (lines 33, 41 and 44), one statement at a time; no lock is held.
TimerCallback(timer_id) ==
    /\ t_pc[timer_id] \in {"waiting", "notify", "delete"}
    /\ CASE t_pc[timer_id] = "waiting" ->
              /\ t_pc' = [t_pc EXCEPT ![timer_id] =
                             IF timer_id \in active_timers THEN "notify" ELSE "finished"]
              /\ UNCHANGED active_timers
         [] t_pc[timer_id] = "notify" ->
              /\ t_pc' = [t_pc EXCEPT ![timer_id] = "delete"]
              /\ UNCHANGED active_timers
         [] t_pc[timer_id] = "delete" ->
              IF timer_id \in active_timers
              THEN /\ active_timers' = active_timers \ {timer_id}
                   /\ t_pc' = [t_pc EXCEPT ![timer_id] = "finished"]
              ELSE /\ t_pc' = [t_pc EXCEPT ![timer_id] = "raised"]
                   /\ UNCHANGED active_timers
    /\ UNCHANGED <<active_alarms, timer_id_counter, alarm_id_counter, c_pc, c_id, c_ok>>
    /\ UNCHANGED notTimer

\* cancel_timer, lines 284-293, one statement at a time, for a timer_id found
\* in active_timers (any other id is answered "No active timer" and changes
\* nothing). Timer.cancel() stops a thread that is still waiting and does
\* nothing to one that has fired; the KeyError of line 287 is caught and
\* reported as an error.
CancelTimer ==
    /\ CASE c_pc = "idle" ->
              \E timer_id \in active_timers :
                  /\ c_id' = timer_id
                  /\ c_pc' = "cancel"
                  /\ UNCHANGED <<active_timers, t_pc, c_ok>>
         [] c_pc = "cancel" ->
              /\ t_pc' = IF t_pc[c_id] = "waiting"
                         THEN [t_pc EXCEPT ![c_id] = "cancelled"] ELSE t_pc
              /\ c_pc' = "delete"
              /\ UNCHANGED <<active_timers, c_id, c_ok>>
         [] c_pc = "delete" ->
              /\ IF c_id \in active_timers
                 THEN /\ active_timers' = active_timers \ {c_id}
                      /\ c_ok' = c_ok \cup {c_id}
                 ELSE UNCHANGED <<active_timers, c_ok>>
              /\ c_pc' = "idle"
              /\ UNCHANGED <<t_pc, c_id>>
    /\ UNCHANGED <<active_alarms, timer_id_counter, alarm_id_counter>>
    /\ UNCHANGED notTimer

TimerNext ==
    \/ SetTimer
    \/ SetAlarm
    \/ CancelTimer
    \/ \E timer_id \in DOMAIN t_pc : TimerCallback(timer_id)

-----------------------------------------------------------------------------
(* Specifications *)

\* The components that a specification leaves at rest.
ToolsIdle == RunnerInit /\ SingletonIdle /\ TimerInit

\* One run of the supervisor graph on every classifier answer tried.
GraphSpecInit == GraphInit /\ LoopIdle /\ MemoryIdle /\ BusIdle /\ ToolsIdle
GraphSpec == GraphSpecInit /\ [][GraphNext]_vars

\* The backend worker and the wake word listener.
LoopSpecInit == GraphIdle /\ LoopInit /\ MemoryIdle /\ BusIdle /\ ToolsIdle
LoopSpec == LoopSpecInit /\ [][LoopNext]_vars

\* The worker thread keeps running: whenever it can take a step it takes one.
LoopLive == LoopSpec /\ WF_vars(WorkerStep)

\* The memory service under any sequence of calls, clock advances and
\* durable-tier failures.
MemorySpecInit == GraphIdle /\ LoopIdle /\ MemoryInit /\ BusIdle /\ ToolsIdle
MemorySpec == MemorySpecInit /\ [][MemoryNext]_vars

\* The event bus under any interleaving of its producers, a consumer and a
\* thread that clears it.
BusSpecInit == GraphIdle /\ LoopIdle /\ MemoryIdle /\ BusInit /\ ToolsIdle
BusSpec == BusSpecInit /\ [][BusNext]_vars

\* The follow-up decision of the loop (lines 139-170) on every response tried:
\* the first response of a session has just been spoken.
FollowUpSpecInit ==
    /\ GraphIdle /\ MemoryIdle /\ BusIdle /\ ToolsIdle
    /\ pc = "check_follow_up"
    /\ response \in ResponsesTried
    /\ seg = SpeechSteps(response)
    /\ wake_event = FALSE
    /\ conversation_history = <<PlayJazz>>
    /\ turn_count = 0
    /\ routed = <<PlayJazz>>
    /\ decision = Music
    /\ agent_calls = <<Music>>
    /\ ended = 0
    /\ all_follow_up = TRUE
    /\ all_answered = TRUE
    /\ failure = "none"
    /\ running = TRUE
FollowUpSpec == FollowUpSpecInit /\ [][FollowUpDetected \/ FinalAnswerGiven]_vars

\* The in-memory list under store_command calls past its cap.
FallbackSpecInit == GraphIdle /\ LoopIdle /\ MemoryInit /\ BusIdle /\ ToolsIdle
FallbackSpec == FallbackSpecInit /\ [][StoreCommand \/ Returned]_vars

\* The backend runner under any sequence of start() and stop() calls.
RunnerSpecInit ==
    GraphIdle /\ LoopIdle /\ MemoryIdle /\ BusIdle /\ RunnerInit /\ SingletonIdle /\ TimerInit
RunnerSpec == RunnerSpecInit /\ [][RunnerNext]_vars

\* Two threads construct the event bus for the first time and use it.
SingletonSpecInit ==
    GraphIdle /\ LoopIdle /\ MemoryIdle /\ BusIdle /\ RunnerInit /\ SingletonInit /\ TimerInit
SingletonSpec == SingletonSpecInit /\ [][SingletonNext]_vars

\* The timers under any interleaving of the tool calls and the timer threads.
TimerSpecInit ==
    GraphIdle /\ LoopIdle /\ MemoryIdle /\ BusIdle /\ RunnerInit /\ SingletonIdle /\ TimerInit
TimerSpec == TimerSpecInit /\ [][TimerNext]_vars

-----------------------------------------------------------------------------
(* Properties *)

\* A session is open: a command was recognised and the loop has not yet left
\* the turn loop.
InSession == pc \in {"turn", "speak", "check_follow_up", "listen_followup"}

\* The steps of the current segment that follow the speech of the response.
AfterSpeech(steps) == SubSeq(steps, 4, Len(steps))

\* The follow-up captures tried that contain a cancellation phrase
\* ("Cancel that": cancel; "nonstop hits": stop).
CancelUtterances == {CancelThat, NonstopHits}

HeardIn(steps, utterances) ==
    \E i \in 1..Len(steps) : steps[i].kind = "capture" /\ steps[i].text \in utterances

\* C1: in every session turn_count never exceeds max_turns and
\* route_to_langgraph is called at most max_turns times; a session in which
\* every response is classified as a follow-up and every follow-up capture
\* returns a non-cancelling utterance ends with exactly max_turns routed turns.
C1_TurnBound ==
    /\ turn_count <= max_turns
    /\ Len(routed) <= max_turns
    /\ (pc = "clear_history" /\ all_follow_up /\ all_answered
            => Len(routed) = max_turns /\ turn_count = max_turns)

\* A session of five follow-up responses, each one answered, has ended.
C1_Witness ==
    /\ pc = "clear_history"
    /\ all_follow_up
    /\ all_answered
    /\ Len(routed) = max_turns
    /\ Len(conversation_history) = max_turns + 1

\* C2: whatever the classifier answers, supervisor_node trims it and yields
\* FINISH unless the trimmed answer is exactly one of the six labels; on FINISH
\* router returns END and no agent node runs; an exact agent label runs that
\* agent and no other.
C2_FailClosedRouting ==
    LET expected == IF g_core \in Labels THEN g_core ELSE FINISH
    IN  /\ g_pc \in {"router", "agent", "final", "done"} => g_messages[2] = StrMsg(expected)
        /\ g_pc = "agent" => expected \in AgentLabels
        /\ g_pc \in {"final", "done"} =>
               g_agents_run = IF expected \in AgentLabels THEN <<expected>> ELSE <<>>
        /\ g_pc = "done" /\ expected = FINISH => g_answer = StockCompletion

\* A padded answer naming two agents went through the graph without running
\* either of them.
C2_Witness ==
    /\ g_pc = "done"
    /\ g_core = RawTwoLabels
    /\ g_lead = <<" ">>
    /\ g_agents_run = <<>>
    /\ g_answer = StockCompletion

\* C3: when the supervisor resolves a turn to FINISH no agent is invoked, the
\* response is the stock completion text, and the session ends once it has
\* been spoken: the loop neither listens for a follow-up nor routes again.
C3_TerminalEndsSession ==
    decision = FINISH =>
        /\ agent_calls = <<>>
        /\ response = StockCompletion
        /\ pc \notin {"listen_followup", "turn"}

\* C4: a routing or agent failure during a turn does not end the conversation
\* worker.
C4_WorkerSurvivesFailure == failure # "none" => pc # "stopped"

\* C5: whatever way the durable insert fails, store() does not raise, appends
\* the entry to the in-memory list and returns its non-null id.
C5_StoreNeverRaises ==
    (m_ret.op = "store" /\ m_ret.insert \notin {"ok", "not tried"}) =>
        /\ ~m_ret.raised
        /\ m_ret.value # NoId
        /\ memory_fallback # <<>>
        /\ memory_fallback[Len(memory_fallback)].id = m_ret.value

\* C6: as long as no call raises, every session started by a recognised
\* command ends and the loop is back at the wake word wait.
C6_SessionsEnd == InSession ~> (pc = "wait_wake" \/ failure # "none")

\* The loop is waiting for the wake word again after a session that ran into
\* the turn limit.
C6_Witness ==
    /\ pc = "wait_wake"
    /\ turn_count = max_turns
    /\ conversation_history = <<>>
    /\ failure = "none"

\* C7: after four answered follow-ups, what the loop does once the 5th response
\* has been spoken is what it does for a response that asks nothing back,
\* whatever the 5th response is.
C7_FifthResponseEndsAlike ==
    (pc = "clear_history" /\ Len(routed) = max_turns) => AfterSpeech(seg) = FinalAnswerSteps

\* C8: a follow-up capture that contains a cancellation phrase ends the session
\* at once: the loop speaks the acknowledgement and emits CONVERSATION_ENDED,
\* and the utterance is neither appended to the history nor routed nor counted
\* as a turn.
C8_CancelEndsSession ==
    [][(pc = "listen_followup" /\ seg' # seg /\ HeardIn(AfterSpeech(seg'), CancelUtterances)) =>
          /\ pc' = "clear_history"
          /\ \E heard \in CancelUtterances :
                 seg' = seg \o <<Capture(heard), Speak(OkayCancelled),
                                 Emit("CONVERSATION_ENDED", <<>>)>>
          /\ conversation_history' = conversation_history
          /\ turn_count' = turn_count
          /\ routed' = routed]_vars

\* "Cancel that" was heard at a follow-up prompt and the session is over.
C8_Witness ==
    /\ pc = "clear_history"
    /\ Len(seg) = 7
    /\ seg[5] = Capture(CancelThat)
    /\ seg[6] = Speak(OkayCancelled)
    /\ turn_count < max_turns

\* C9: when command capture returns None after the wake word, the loop goes
\* back to the wake word wait with no routing call, no speech, no
\* COMMAND_RECEIVED event, the conversation history as it was and no memory
\* entry written.
C9_SilentCommandFrame ==
    [][(pc = "listen_command" /\ seg' # seg /\ HeardIn(seg', {None})) =>
          /\ pc' = "loop_top"
          /\ ~Did(seg', "route")
          /\ ~Did(seg', "speak")
          /\ ~Emitted(seg', "COMMAND_RECEIVED")
          /\ UNCHANGED <<conversation_history, turn_count, response, routed>>
          /\ UNCHANGED memoryVars]_vars

\* The capture after a wake word came back with None.
C9_Witness ==
    /\ pc = "loop_top"
    /\ Len(seg) = 4
    /\ seg[4] = Capture(None)

\* C10: an entry stored with type COMMAND and content X is returned, X intact,
\* by every later get_recent_memories(memory_types=[COMMAND]) of the same user
\* made inside the window and the TTL with fewer than `limit` newer COMMAND
\* entries, whatever the durable tier did in between.
C10_CommandRoundTrip ==
    (m_ret.op = "get_recent_memories" /\ m_ret.args.memory_types = {COMMAND}) =>
        \A i \in 1..Len(stored_log) :
            LET e == stored_log[i]
                newer == {j \in (i + 1)..Len(stored_log) :
                             /\ stored_log[j].type = COMMAND
                             /\ stored_log[j].user_id = e.user_id}
            IN  (/\ e.type = COMMAND
                 /\ e.user_id = m_ret.args.user_id
                 /\ e.timestamp >= clock - m_ret.args.minutes
                 /\ clock < e.expires_at
                 /\ Cardinality(newer) < m_ret.args.limit)
                => \E k \in 1..Len(m_ret.value) :
                       /\ m_ret.value[k].id = e.id
                       /\ m_ret.value[k].content = e.content

\* Every entry the store holds, whichever tier holds it.
Surviving == memory_collection \o memory_fallback

\* The list of the tier that served a read.
Served(find) == IF find = "ok" THEN memory_collection ELSE memory_fallback

Least(a, b) == IF a < b THEN a ELSE b

\* The number store() gave an entry: entries are numbered as they are written.
WriteNo(m) == m.id[2]

InWriteOrder(list) ==
    \A i, j \in 1..Len(list) : i < j => WriteNo(list[i]) < WriteNo(list[j])

\* C11: get_recent_memories returns no entry whose expiry time (its timestamp
\* plus the ttl_hours it was stored with, 24 when none was given) has been
\* reached, an entry stored with ttl_hours = 0 included, whichever tier serves.
C11_ExpiredNeverReturned ==
    m_ret.op = "get_recent_memories" =>
        \A k \in 1..Len(m_ret.value) :
            /\ clock < m_ret.value[k].expires_at
            /\ \A i \in 1..Len(stored_log) :
                   stored_log[i].id = m_ret.value[k].id =>
                       clock < stored_log[i].timestamp
                                   + (IF stored_log[i].ttl_hours = NoTtl
                                      THEN DEFAULT_TTL_HOURS
                                      ELSE stored_log[i].ttl_hours) * MinutesPerHour

\* C12: once an agent has raised in a turn, the store holds exactly one ERROR
\* entry for it, the agent was invoked once, and the worker goes on to speak
\* (an apology) after the routing call instead of stopping.
C12_AgentFailureRecorded ==
    failure = "agent" =>
        /\ Len(SelectSeq(Surviving, LAMBDA m : m.type = ERROR)) = 1
        /\ Len(agent_calls) = 1
        /\ pc # "stopped"

\* C13: when an agent has run to completion the store holds exactly one
\* AGENT_ACTION entry, tagged with that agent's name, before the answer goes
\* back to the conversation loop.
C13_AgentActionRecorded ==
    (g_pc \in {"final", "done"} /\ g_agents_run # <<>>) =>
        LET actions == SelectSeq(Surviving, LAMBDA m : m.type = AGENT_ACTION)
        IN  /\ Len(actions) = 1
            /\ actions[1].agent = g_agents_run[1]

\* C14: get_recent_memories never raises and, the store being available,
\* returns most-recent-first exactly the min(limit, k) most recent of the k
\* stored entries of the user that lie in the window and have a type asked for.
C14_RecentExact ==
    m_ret.op = "get_recent_memories" =>
        /\ ~m_ret.raised
        /\ m_ret.find # "PyMongoError" =>
               LET a == m_ret.args
                   v == m_ret.value
                   q == Matching(Surviving, a.user_id, clock - a.minutes, a.memory_types)
               IN  /\ Len(v) = Least(a.limit, Len(q))
                   /\ \A k \in 1..Len(v) : \E i \in 1..Len(q) : q[i] = v[k]
                   /\ \A k, l \in 1..Len(v) : k # l => v[k].id # v[l].id
                   /\ \A k \in 1..(Len(v) - 1) : v[k].timestamp >= v[k + 1].timestamp
                   /\ \A i \in 1..Len(q) :
                          (\A k \in 1..Len(v) : v[k] # q[i]) =>
                              \A k \in 1..Len(v) : v[k].timestamp >= q[i].timestamp

\* C15: get_context_for_agent renders one line, oldest first in write order,
\* for each of the most recent max_entries entries of the window that qualify
\* (type COMMAND, AGENT_ACTION or RESULT and, include_other_agents being false,
\* no tag of another agent), and the empty string exactly when none qualifies.
C15_ContextExact ==
    m_ret.op = "get_context_for_agent" =>
        LET a == m_ret.args
            qualifying == SelectSeq(Served(m_ret.find), LAMBDA m :
                              /\ m.user_id = ResolveUser(NoUser)
                              /\ m.timestamp >= clock - a.minutes
                              /\ m.type \in {COMMAND, AGENT_ACTION, RESULT}
                              /\ (a.include_other_agents \/ m.agent \in {NoAgent, a.agent}))
            latest == KeepLast(qualifying, a.max_entries)
        IN  m_ret.value = IF latest = <<>> THEN <<>>
                          ELSE <<ContextHeader>>
                               \o [i \in 1..Len(latest) |-> ContextLine(latest[i])]
                               \o <<ContextFooter>>

\* C16: get_session_history returns min(n, limit) of the n entries of the
\* session, of that session only and in write order, and the entries are those
\* either tier would return for the same entries.
C16_HistoryAlike ==
    (m_ret.op = "get_session_history" /\ m_ret.args.session_id # NoSession) =>
        LET a == m_ret.args
            v == m_ret.value
            docs == Served(m_ret.find)
            ids(list) == {list[k].id : k \in 1..Len(list)}
        IN  /\ Len(v) = Least(a.limit, Len(OfSession(docs, a.session_id)))
            /\ \A k \in 1..Len(v) : v[k].session_id = a.session_id
            /\ InWriteOrder(v)
            /\ ids(v) = ids(FallbackHistory(docs, a.session_id, a.limit))
            /\ \A o \in DurableHistory(docs, a.session_id, a.limit) : ids(v) = ids(o)

\* C17: a get_context_for_agent call leaves the store as it was, and a call
\* repeated with the same arguments, nothing stored or cleared and the clock
\* not moved in between, returns what the first call returned.
C17_ContextIdempotent ==
    [][m_ret'.op = "get_context_for_agent" =>
          /\ UNCHANGED <<memory_collection, memory_fallback, current_session_id,
                         current_user_id>>
          /\ (m_ret.op = "get_context_for_agent" /\ m_ret'.args = m_ret.args)
                 => m_ret'.value = m_ret.value]_vars

\* C18: get_recent_memories(minutes=0) returns the empty list in every state
\* of the store.
C18_ZeroWindowEmpty ==
    (m_ret.op = "get_recent_memories" /\ m_ret.args.minutes = 0) => m_ret.value = <<>>

\* `new` holds entries of `old` only, unmodified and in the order of `old`.
KeptInOrder(old, new) ==
    /\ \A i \in 1..Len(new) : \E k \in 1..Len(old) : old[k] = new[i]
    /\ InWriteOrder(new)

\* C19: entries are append-only and observed in write order: a step changes a
\* tier only by appending the entry being stored or by removing entries, only
\* clear_session, clear_old_memories, TTL expiry and fallback eviction remove,
\* and get_session_history returns entries in the order they were written.
C19_AppendOnlyWriteOrder ==
    [][/\ \/ KeptInOrder(memory_collection, memory_collection')
          \/ /\ m_ret'.op = "store"
             /\ memory_collection' # <<>>
             /\ KeptInOrder(memory_collection,
                            SubSeq(memory_collection', 1, Len(memory_collection') - 1))
             /\ WriteNo(memory_collection'[Len(memory_collection')]) = n_stores'
       /\ \/ KeptInOrder(memory_fallback, memory_fallback')
          \/ /\ m_ret'.op = "store"
             /\ memory_fallback' # <<>>
             /\ KeptInOrder(memory_fallback,
                            SubSeq(memory_fallback', 1, Len(memory_fallback') - 1))
             /\ WriteNo(memory_fallback'[Len(memory_fallback')]) = n_stores'
       /\ (\E k \in 1..Len(memory_collection) :
               \A i \in 1..Len(memory_collection') :
                   memory_collection'[i] # memory_collection[k])
              => \/ m_ret'.op \in {"clear_session", "clear_old_memories"}
                 \/ \A k \in 1..Len(memory_collection) :
                        memory_collection[k].expires_at > clock
                            => \E i \in 1..Len(memory_collection') :
                                   memory_collection'[i] = memory_collection[k]
       /\ (\E k \in 1..Len(memory_fallback) :
               \A i \in 1..Len(memory_fallback') :
                   memory_fallback'[i] # memory_fallback[k])
              => \/ m_ret'.op \in {"clear_session", "clear_old_memories"}
                 \/ m_ret'.op = "store" /\ Len(memory_fallback') = FallbackCap
       /\ m_ret'.op = "get_session_history" => InWriteOrder(m_ret'.value)]_vars

\* The events of one producer in a sequence of events, by their numbers.
EventsOf(events, p) ==
    LET own == SelectSeq(events, LAMBDA e : e.producer = p)
    IN  [i \in 1..Len(own) |-> own[i].seq]

\* C20: get_event returns the events of each producer in the order the
\* producer emitted them and each at most once, and, clear() not having been
\* called, every emitted event has been returned or is still queued.
C20_PerProducerOrder ==
    \A p \in Producers :
        /\ \A i, j \in 1..Len(EventsOf(b_received, p)) :
               i < j => EventsOf(b_received, p)[i] < EventsOf(b_received, p)[j]
        /\ b_clears = 0 =>
               EventsOf(b_received, p) \o EventsOf(frontend_queue, p)
                   = [i \in 1..b_emitted[p] |-> i]

\* Both producers have emitted twice, every event has been returned, and the
\* events of the two producers came out interleaved.
C20_Witness ==
    /\ b_clears = 0
    /\ frontend_queue = <<>>
    /\ Len(b_received) = 2 * MaxEmits
    /\ b_received[1].producer # b_received[2].producer
    /\ b_received[2].producer # b_received[3].producer

\* The positions of the steps of one kind in a step log.
StepsOf(steps, kind) == {i \in 1..Len(steps) : steps[i].kind = kind}

\* Position i of the step log comes after a speech call that has returned and
\* after the TTS_FINISHED that follows it.
AfterFinishedSpeech(steps, i) ==
    \E a, b \in 1..Len(steps) :
        /\ a < b /\ b < i
        /\ steps[a].kind = "speak"
        /\ steps[b] = Emit("TTS_FINISHED", <<>>)

\* C21: the steps of the turns never overlap: a follow-up capture starts only
\* after the speech call of the turn has returned and TTS_FINISHED was emitted,
\* the routing of a later turn starts only after the speech of the turn before
\* it, and no routing call starts while another is in progress (one routing
\* call at most between two speeches, one per turn).
C21_TurnStepsInOrder ==
    /\ \A i \in StepsOf(seg, "capture") :
           (\E j \in 1..(i - 1) : seg[j] = Emit("FOLLOW_UP_DETECTED", <<>>))
               => AfterFinishedSpeech(seg, i)
    /\ \A i \in StepsOf(seg, "route") : Len(routed) > 1 => AfterFinishedSpeech(seg, i)
    /\ Cardinality(StepsOf(seg, "route")) <= 1
    /\ Len(routed) <= turn_count + 1

\* The second turn of a session has been routed, after the speech of the
\* first response and the capture of a follow-up.
C21_Witness ==
    /\ pc = "speak"
    /\ turn_count = 1
    /\ Len(routed) = 2
    /\ Len(seg) = 9
    /\ seg[2].kind = "speak"
    /\ seg[5].kind = "capture"
    /\ seg[8].kind = "route"

\* C22: once a shutdown has been requested by stop() and BACKEND_STOPPED has
\* been emitted, the backend threads emit no further event (only another
\* stop() call may repeat BACKEND_STOPPED).
C22_StoppedIsLast ==
    [][(~running /\ r_log # <<>> /\ r_log[Len(r_log)] = "BACKEND_STOPPED")
          => \/ r_log' = r_log
             \/ r_log' = Append(r_log, "BACKEND_STOPPED") /\ r_threads' = r_threads]_vars

\* The lower-case form of a letter of the responses tried.
AsLowerLetter(c) ==
    CASE c = "H" -> "h"
      [] c = "O" -> "o"
      [] c = "W" -> "w"
      [] OTHER -> c

\* The cue, letter by letter, is in the text at position i once the text is
\* put in lower case.
CueAt(text, cue, i) ==
    /\ i + Len(cue) - 1 <= Len(text)
    /\ \A j \in 1..Len(cue) : AsLowerLetter(text[i + j - 1]) = cue[j]

\* The text is there, is not empty and holds a cue of the list.
HasCue(text) ==
    /\ text # None
    /\ \E k \in 1..Len(question_keywords), i \in 1..Len(text) :
           CueAt(text, question_keywords[k], i)

\* C23: after a response the loop listens for a follow-up exactly when the
\* response is non-empty and its lower-cased text contains a cue of the list,
\* and ends the conversation otherwise; an empty or missing response always
\* ends it.
C23_FollowUpExactlyOnCue ==
    /\ pc = "listen_followup" => HasCue(response)
    /\ pc = "clear_history" => ~HasCue(response) /\ ended = 1
    /\ response \in {None, <<>>} => pc # "listen_followup"

\* A response that spells a cue in capitals made the loop listen for a
\* follow-up.
C23_Witness ==
    /\ pc = "listen_followup"
    /\ response = <<"W", "H", "O">>

\* The entries written to the in-memory list, oldest first.
WrittenToFallback == SelectSeq(stored_log, LAMBDA e : e.id[1] = "uuid4")

\* C24: the in-memory list holds at most FallbackCap entries and equals the
\* most recent min(n, FallbackCap) of the n entries written to it, in write
\* order.
C24_FallbackBounded ==
    LET n == Len(WrittenToFallback)
        kept == Least(n, FallbackCap)
    IN  /\ Len(memory_fallback) <= FallbackCap
        /\ Len(memory_fallback) = kept
        /\ \A i \in 1..kept :
               memory_fallback[i].id = WrittenToFallback[n - kept + i].id

\* Two entries more than the cap have been written: the list is full and its
\* oldest entry is the third one written.
C24_Witness ==
    /\ n_stores = FallbackCap + 2
    /\ Len(memory_fallback) = FallbackCap
    /\ memory_fallback[1].id = <<"uuid4", 3>>
    /\ memory_fallback[FallbackCap].id = <<"uuid4", FallbackCap + 2>>

\* C25: under concurrent first construction the queues and the subscriber
\* table are created exactly once, no caller's construction raises, every
\* event emitted is still queued and a subscription made is still in the
\* table.
C25_InitialisedOnce ==
    /\ s_inits <= 1
    /\ \A t \in Constructors : s_pc[t] # "raised"
    /\ \A i \in 1..Len(s_sent) :
           \E k \in 1..Len(frontend_queue) : frontend_queue[k] = s_sent[i]
    /\ (\E t \in Constructors : s_pc[t] = "used") => "log_message" \in subscribers

\* C26: whichever way a session ends, exactly one CONVERSATION_ENDED has been
\* emitted when the loop leaves it for the next wake word wait.
C26_OneConversationEnded == pc = "clear_history" => ended = 1

\* C27: the history holds turn_count + 1 utterances, each routing call gets
\* the initial command followed by the follow-ups accepted so far, in capture
\* order, and when the session ends every accepted follow-up has been routed.
C27_FollowUpsRouted ==
    /\ (InSession \/ pc = "clear_history")
           => /\ Len(conversation_history) = turn_count + 1
              /\ Len(routed) <= Len(conversation_history)
              /\ \A k \in 1..Len(routed) :
                     routed[k] = Join(SubSeq(conversation_history, 1, k))
    /\ pc = "clear_history" => Len(routed) = Len(conversation_history)

\* C28: when the loop starts to wait for the wake word after a session, no
\* wake event set earlier is pending: the wait cannot return without a wake
\* word detected while the loop is waiting.
C28_WaitNeedsNewTrigger ==
    [][(pc = "loop_top" /\ pc' = "wait_wake" /\ response # None) => ~wake_event']_vars

\* C29: at most one backend thread is executing run_sentinel_agent.
C29_OneWorker ==
    Cardinality({t \in DOMAIN r_threads : r_threads[t] = "agent"}) <= 1

\* C30: once cancel_timer has reported timer id as cancelled, the timer is not
\* among the active timers and its callback neither plays the notification nor
\* raises; a cancel_timer call leaves every other timer and every alarm as
\* they were.
C30_CancelledStaysSilent ==
    [][/\ \A timer_id \in c_ok :
              /\ timer_id \notin active_timers'
              /\ ~(t_pc[timer_id] = "notify" /\ t_pc'[timer_id] = "delete")
              /\ t_pc'[timer_id] # "raised"
       /\ (c_pc # "idle" /\ c_pc' # c_pc)
              => /\ active_timers' \ {c_id} = active_timers \ {c_id}
                 /\ active_alarms' = active_alarms
                 /\ \A other \in DOMAIN t_pc : other # c_id => t_pc'[other] = t_pc[other]]_vars

=============================================================================
